---- MODULE Spec2Model ----
(***************************************************************************)
(* A model of thumbor-es: buildThumborUrl (src/url.ts) and hmacSha1        *)
(* (src/hmac.ts).  A call validates its options, assembles the config      *)
(* string, and either returns the unsafe path or suspends on hmacSha1 and  *)
(* returns the signed path once the digest arrives.                        *)
(*                                                                         *)
(* JavaScript strings are TLA+ strings (Len, \o and SubSeq act on their    *)
(* characters).  An optional field is a sequence of at most one element:   *)
(* << >> is `undefined`, <<v>> is the value v.  A value of a union type    *)
(* (number | "orig", boolean | object, boolean | string) is a record with  *)
(* a `type` field, as `typeof` would report it.                            *)
(***************************************************************************)
EXTENDS Integers, Sequences, FiniteSets, TLC

VARIABLES
    request,    \* request[c]: the argument of call c
    pc,         \* pc[c]: "ready" | "signing" | "resolved" | "rejected"
    config,     \* config[c]: the const `config` of call c ("" before assembly)
    path,       \* path[c]: the local `path` of call c ("" before it is set)
    result,     \* result[c]: the value the promise resolved with
    error,      \* error[c]: the error the promise rejected with
    hmacLog     \* hmacLog[c]: the (url, key) arguments of every hmacSha1 invocation of call c

vars == <<request, pc, config, path, result, error, hmacLog>>

----------------------------------------------------------------------------
(* Strings *)

CharAt(s, i) == SubSeq(s, i, i)

Drop(s, n) == SubSeq(s, n + 1, Len(s))

StartsWith(s, p) == Len(s) >= Len(p) /\ SubSeq(s, 1, Len(p)) = p

EndsWith(s, p) == Len(s) >= Len(p) /\ SubSeq(s, Len(s) - Len(p) + 1, Len(s)) = p

Occurrences(s, p) == {i \in 1..(Len(s) - Len(p) + 1) : SubSeq(s, i, i + Len(p) - 1) = p}

Contains(s, p) == Occurrences(s, p) # {}

\* String.prototype.indexOf, 1-based; 0 when p does not occur.
IndexOf(s, p) ==
    IF Contains(s, p)
    THEN CHOOSE i \in Occurrences(s, p) : \A j \in Occurrences(s, p) : i <= j
    ELSE 0

LastIndexOf(s, p) ==
    IF Contains(s, p)
    THEN CHOOSE i \in Occurrences(s, p) : \A j \in Occurrences(s, p) : i >= j
    ELSE 0

Digits == "0123456789"

RECURSIVE NatToString(_)
NatToString(n) ==
    IF n < 10
    THEN CharAt(Digits, n + 1)
    ELSE NatToString(n \div 10) \o CharAt(Digits, (n % 10) + 1)

\* `${n}` for an integer n.
NumberToString(n) == IF n < 0 THEN "-" \o NatToString(-n) ELSE NatToString(n)

\* The white space String.prototype.trim removes (the characters the model uses).
WhiteSpace == {" ", "\t", "\n"}

RECURSIVE TrimStart(_)
TrimStart(s) ==
    IF s # "" /\ CharAt(s, 1) \in WhiteSpace THEN TrimStart(Drop(s, 1)) ELSE s

RECURSIVE TrimEnd(_)
TrimEnd(s) ==
    IF s # "" /\ CharAt(s, Len(s)) \in WhiteSpace
    THEN TrimEnd(SubSeq(s, 1, Len(s) - 1))
    ELSE s

\* String.prototype.trim
StringTrim(s) == TrimEnd(TrimStart(s))

\* Array.prototype.join
RECURSIVE Join(_, _)
Join(strs, sep) ==
    IF strs = << >> THEN ""
    ELSE IF Len(strs) = 1 THEN strs[1]
    ELSE strs[1] \o sep \o Join(Tail(strs), sep)

\* String.prototype.replace(/from/g, to) for a one-character pattern.
RECURSIVE ReplaceAll(_, _, _)
ReplaceAll(s, from, to) ==
    IF s = "" THEN ""
    ELSE IF Len(s) = 1 THEN (IF s = from THEN to ELSE s)
    ELSE LET half == Len(s) \div 2
         IN  ReplaceAll(SubSeq(s, 1, half), from, to) \o ReplaceAll(Drop(s, half), from, to)

----------------------------------------------------------------------------
(* Values of the option types *)

Undefined == << >>

Some(v) == <<v>>

IsSet(o) == o # Undefined

\* JavaScript truthiness of an optional string: undefined and "" are falsy.
TruthyString(o) == IsSet(o) /\ o[1] # ""

\* JavaScript truthiness of an optional boolean.
TruthyBool(o) == o = Some(TRUE)

ORIGINAL_SIZE == "orig"

\* number | OriginalSize
NumberValue(n) == [type |-> "number", num |-> n, str |-> ""]
StringValue(s) == [type |-> "string", num |-> 0, str |-> s]

\* boolean | object (trim) and boolean | string (fitIn)
TrimBool(b) ==
    [type |-> "boolean", bool |-> b, value |-> Undefined, colorTolerance |-> Undefined]

TrimObject(value, colorTolerance) ==
    [type |-> "object", bool |-> FALSE, value |-> value, colorTolerance |-> colorTolerance]

FitInBool(b) == [type |-> "boolean", bool |-> b, str |-> ""]

FitInString(s) == [type |-> "string", bool |-> FALSE, str |-> s]

NoError == [name |-> "", message |-> ""]

Throw(name, message) == [name |-> name, message |-> message]

----------------------------------------------------------------------------
(* buildThumborUrl: the validation region *)

ImageViolation(image) ==
    IF image = "" THEN Throw("TypeError", "Image must not be blank.") ELSE NoError

FilterViolation(filters) ==
    IF \E i \in 1..Len(filters) : StringTrim(filters[i]) = ""
    THEN Throw("TypeError", "Filter must not be blank.")
    ELSE NoError

\* The resize checks with `||` for the `&&` of the zero check.
ResizeViolation_EitherZero(resize) ==
    IF ~IsSet(resize) THEN NoError
    ELSE LET width == resize[1].width
             height == resize[1].height
         IN  IF width.type = "number" /\ width.num < 0
             THEN Throw("RangeError", "Width must be a positive number.")
             ELSE IF height.type = "number" /\ height.num < 0
             THEN Throw("RangeError", "Height must be a positive number.")
             ELSE IF \/ width.type = "number" /\ width.num = 0
                     \/ height.type = "number" /\ height.num = 0
             THEN Throw("RangeError", "Both width and height must not be zero.")
             ELSE NoError

ResizeViolation(resize) ==
    IF ~IsSet(resize) THEN NoError
    ELSE LET width == resize[1].width
             height == resize[1].height
         IN  IF width.type = "number" /\ width.num < 0
             THEN Throw("RangeError", "Width must be a positive number.")
             ELSE IF height.type = "number" /\ height.num < 0
             THEN Throw("RangeError", "Height must be a positive number.")
             ELSE IF /\ width.type = "number" /\ width.num = 0
                     /\ height.type = "number" /\ height.num = 0
             THEN Throw("RangeError", "Both width and height must not be zero.")
             ELSE NoError

\* The crop checks with `bottom < top` and `right < left` for the comparisons with
\* top and left.
CropViolation_AllowsEqual(crop) ==
    IF ~IsSet(crop) THEN NoError
    ELSE LET top == crop[1].top
             left == crop[1].left
             bottom == crop[1].bottom
             right == crop[1].right
         IN  IF top < 0
             THEN Throw("Error", "Top must be greater or equal to zero.")
             ELSE IF left < 0
             THEN Throw("Error", "Left must be greater or equal to zero.")
             ELSE IF bottom < 1 \/ bottom < top
             THEN Throw("Error", "Bottom must be greater than zero and top.")
             ELSE IF right < 1 \/ right < left
             THEN Throw("Error", "Right must be greater than zero and left.")
             ELSE NoError

CropViolation(crop) ==
    IF ~IsSet(crop) THEN NoError
    ELSE LET top == crop[1].top
             left == crop[1].left
             bottom == crop[1].bottom
             right == crop[1].right
         IN  IF top < 0
             THEN Throw("Error", "Top must be greater or equal to zero.")
             ELSE IF left < 0
             THEN Throw("Error", "Left must be greater or equal to zero.")
             ELSE IF bottom < 1 \/ bottom <= top
             THEN Throw("Error", "Bottom must be greater than zero and top.")
             ELSE IF right < 1 \/ right <= left
             THEN Throw("Error", "Right must be greater than zero and left.")
             ELSE NoError

MaxColorTolerance == 442

\* `options.trim && options.trim !== true`: trim is an object.
TrimIsObject(trim) == IsSet(trim) /\ trim[1].type = "object"

\* `colorTolerance = 0` in the destructuring: the default of an undefined tolerance.
ColorToleranceOf(trim) ==
    IF IsSet(trim[1].colorTolerance) THEN trim[1].colorTolerance[1] ELSE 0

\* The trim checks with `>=` for the `>` of the upper bound.
TrimViolation_ExclusiveUpperBound(trim) ==
    IF ~TrimIsObject(trim) THEN NoError
    ELSE LET value == trim[1].value
             colorTolerance == ColorToleranceOf(trim)
         IN  IF colorTolerance < 0 \/ colorTolerance >= MaxColorTolerance
             THEN Throw("RangeError", "Color tolerance must be between 0 and 442.")
             ELSE IF colorTolerance > 0 /\ ~TruthyString(value)
             THEN Throw("TypeError", "Trim pixel color value must be defined.")
             ELSE NoError

TrimViolation(trim) ==
    IF ~TrimIsObject(trim) THEN NoError
    ELSE LET value == trim[1].value
             colorTolerance == ColorToleranceOf(trim)
         IN  IF colorTolerance < 0 \/ colorTolerance > MaxColorTolerance
             THEN Throw("RangeError", "Color tolerance must be between 0 and 442.")
             ELSE IF colorTolerance > 0 /\ ~TruthyString(value)
             THEN Throw("TypeError", "Trim pixel color value must be defined.")
             ELSE NoError

\* The checks in the order the code makes them; the first violation is thrown.
FirstError(errors) ==
    IF \E i \in 1..Len(errors) : errors[i] # NoError
    THEN errors[CHOOSE i \in 1..Len(errors) :
                    /\ errors[i] # NoError
                    /\ \A j \in 1..(i - 1) : errors[j] = NoError]
    ELSE NoError

Validate(req) ==
    FirstError(<< ImageViolation(req.image),
                  FilterViolation(req.filters),
                  ResizeViolation(req.resize),
                  CropViolation(req.crop),
                  TrimViolation(req.trim) >>)

----------------------------------------------------------------------------
(* buildThumborUrl: the locals and assembleConfig *)

\* const fitInStyle = options.fitIn === true ? "fit-in" : options.fitIn;
\* the value is "" when fitInStyle is falsy (undefined, false or "").
fitInStyle(fitIn) ==
    IF ~IsSet(fitIn) THEN ""
    ELSE IF fitIn[1].type = "boolean"
         THEN (IF fitIn[1].bool THEN "fit-in" ELSE "")
         ELSE fitIn[1].str

\* const isTrim = !!options.trim;
isTrim(trim) == IsSet(trim) /\ (trim[1].type = "object" \/ trim[1].bool)

\* let trimPixelColor: "" when it stays undefined or is falsy.
trimPixelColor(trim) ==
    IF TrimIsObject(trim) /\ TruthyString(trim[1].value) THEN trim[1].value[1] ELSE ""

\* let trimColorTolerance = 0;
trimColorTolerance(trim) == IF TrimIsObject(trim) THEN ColorToleranceOf(trim) ELSE 0

\* const meta = endpoint === "metadata";
meta(req) == req.endpoint = Some("metadata")

MetaSegment(req) == IF meta(req) THEN "meta/" ELSE ""

\* The trim segment with the tolerance written whenever there is a pixel color,
\* a zero tolerance included.
TrimSegment_WritesZeroTolerance(trim) ==
    IF isTrim(trim)
    THEN "trim"
         \o (IF trimPixelColor(trim) # ""
             THEN ":" \o trimPixelColor(trim)
                  \o ":" \o NumberToString(trimColorTolerance(trim))
             ELSE "")
         \o "/"
    ELSE ""

TrimSegment(trim) ==
    IF isTrim(trim)
    THEN "trim"
         \o (IF trimPixelColor(trim) # ""
             THEN ":" \o trimPixelColor(trim)
                  \o (IF trimColorTolerance(trim) # 0
                      THEN ":" \o NumberToString(trimColorTolerance(trim))
                      ELSE "")
             ELSE "")
         \o "/"
    ELSE ""

CropSegment(crop) ==
    IF IsSet(crop)
    THEN NumberToString(crop[1].left) \o "x" \o NumberToString(crop[1].top) \o ":"
         \o NumberToString(crop[1].right) \o "x" \o NumberToString(crop[1].bottom) \o "/"
    ELSE ""

FitInSegment(fitIn) == IF fitInStyle(fitIn) # "" THEN fitInStyle(fitIn) \o "/" ELSE ""

\* `${resize.width}`: the number, or the string itself.
DimensionToString(d) == IF d.type = "number" THEN NumberToString(d.num) ELSE d.str

\* The resize segment with the alignments dropped when smart is set.
ResizeSegment_SmartSuppressesAlign(req) ==
    IF IsSet(req.resize)
    THEN (IF TruthyBool(req.flipHorizontally) THEN "-" ELSE "")
         \o DimensionToString(req.resize[1].width)
         \o "x"
         \o (IF TruthyBool(req.flipVertically) THEN "-" ELSE "")
         \o DimensionToString(req.resize[1].height)
         \o (IF TruthyString(req.horizontalAlign) /\ ~TruthyBool(req.smart)
             THEN "/" \o req.horizontalAlign[1] ELSE "")
         \o (IF TruthyString(req.verticalAlign) /\ ~TruthyBool(req.smart)
             THEN "/" \o req.verticalAlign[1] ELSE "")
         \o "/"
    ELSE ""

\* The resize segment with the horizontal flip written even when there is no resize.
ResizeSegment_FlipWithoutResize(req) ==
    IF IsSet(req.resize)
    THEN (IF TruthyBool(req.flipHorizontally) THEN "-" ELSE "")
         \o DimensionToString(req.resize[1].width)
         \o "x"
         \o (IF TruthyBool(req.flipVertically) THEN "-" ELSE "")
         \o DimensionToString(req.resize[1].height)
         \o (IF TruthyString(req.horizontalAlign) THEN "/" \o req.horizontalAlign[1] ELSE "")
         \o (IF TruthyString(req.verticalAlign) THEN "/" \o req.verticalAlign[1] ELSE "")
         \o "/"
    ELSE IF TruthyBool(req.flipHorizontally) THEN "-0x0/" ELSE ""

\* The resize segment with the two flip marks exchanged.
ResizeSegment_FlipsExchanged(req) ==
    IF IsSet(req.resize)
    THEN (IF TruthyBool(req.flipVertically) THEN "-" ELSE "")
         \o DimensionToString(req.resize[1].width)
         \o "x"
         \o (IF TruthyBool(req.flipHorizontally) THEN "-" ELSE "")
         \o DimensionToString(req.resize[1].height)
         \o (IF TruthyString(req.horizontalAlign) THEN "/" \o req.horizontalAlign[1] ELSE "")
         \o (IF TruthyString(req.verticalAlign) THEN "/" \o req.verticalAlign[1] ELSE "")
         \o "/"
    ELSE ""

ResizeSegment(req) ==
    IF IsSet(req.resize)
    THEN (IF TruthyBool(req.flipHorizontally) THEN "-" ELSE "")
         \o DimensionToString(req.resize[1].width)
         \o "x"
         \o (IF TruthyBool(req.flipVertically) THEN "-" ELSE "")
         \o DimensionToString(req.resize[1].height)
         \o (IF TruthyString(req.horizontalAlign) THEN "/" \o req.horizontalAlign[1] ELSE "")
         \o (IF TruthyString(req.verticalAlign) THEN "/" \o req.verticalAlign[1] ELSE "")
         \o "/"
    ELSE ""

SmartSegment(smart) == IF TruthyBool(smart) THEN "smart/" ELSE ""

\* The filters segment with every entry trimmed before it is joined.
FiltersSegment_TrimsEntries(filters) ==
    IF Len(filters) > 0
    THEN "filters:" \o Join([i \in 1..Len(filters) |-> StringTrim(filters[i])], ":") \o "/"
    ELSE ""

FiltersSegment(filters) ==
    IF Len(filters) > 0 THEN "filters:" \o Join(filters, ":") \o "/" ELSE ""

\* assembleConfig with the fit-in style placed after the dimensions.
\* The config string with the smart segment put before the resize segment.
assembleConfig_SmartBeforeResize(req) ==
    MetaSegment(req)
    \o TrimSegment(req.trim)
    \o CropSegment(req.crop)
    \o FitInSegment(req.fitIn)
    \o SmartSegment(req.smart)
    \o ResizeSegment(req)
    \o FiltersSegment(req.filters)
    \o req.image

\* The config string with the image trimmed.
assembleConfig_TrimsImage(req) ==
    MetaSegment(req)
    \o TrimSegment(req.trim)
    \o CropSegment(req.crop)
    \o FitInSegment(req.fitIn)
    \o ResizeSegment(req)
    \o SmartSegment(req.smart)
    \o FiltersSegment(req.filters)
    \o StringTrim(req.image)

assembleConfig_FitInAfterResize(req) ==
    MetaSegment(req)
    \o TrimSegment(req.trim)
    \o CropSegment(req.crop)
    \o ResizeSegment(req)
    \o FitInSegment(req.fitIn)
    \o SmartSegment(req.smart)
    \o FiltersSegment(req.filters)
    \o req.image

assembleConfig(req) ==
    MetaSegment(req)
    \o TrimSegment(req.trim)
    \o CropSegment(req.crop)
    \o FitInSegment(req.fitIn)
    \o ResizeSegment(req)
    \o SmartSegment(req.smart)
    \o FiltersSegment(req.filters)
    \o req.image

----------------------------------------------------------------------------
(* The signing primitive and the encoding of its digest *)

Base64Alphabet == "ABCDEFGHIJKLMNOPQRSTUVWXYZabcdefghijklmnopqrstuvwxyz0123456789+/"

Base64Char(n) == CharAt(Base64Alphabet, n + 1)

\* encodeBase64 of jsr:@std/encoding: the standard alphabet, padded with "=".
RECURSIVE encodeBase64(_)
encodeBase64(bytes) ==
    IF Len(bytes) = 0 THEN ""
    ELSE IF Len(bytes) = 1
    THEN Base64Char(bytes[1] \div 4)
         \o Base64Char((bytes[1] % 4) * 16)
         \o "=="
    ELSE IF Len(bytes) = 2
    THEN Base64Char(bytes[1] \div 4)
         \o Base64Char((bytes[1] % 4) * 16 + bytes[2] \div 16)
         \o Base64Char((bytes[2] % 16) * 4)
         \o "="
    ELSE Base64Char(bytes[1] \div 4)
         \o Base64Char((bytes[1] % 4) * 16 + bytes[2] \div 16)
         \o Base64Char((bytes[2] % 16) * 4 + bytes[3] \div 64)
         \o Base64Char(bytes[3] % 64)
         \o encodeBase64(SubSeq(bytes, 4, Len(bytes)))

\* The encoding with only "+" replaced.
UrlSafeEncode_PlusOnly(encrypted) == ReplaceAll(encodeBase64(encrypted), "+", "-")

\* encodeBase64(encrypted).replace(/\+/g, "-").replace(/\//g, "_")
UrlSafeEncode(encrypted) ==
    ReplaceAll(ReplaceAll(encodeBase64(encrypted), "+", "-"), "/", "_")

ImageUrl == "my.server.com/some/path/to/image.jpg"

SecurityKey == "my-security-key"

\* HMAC-SHA1 digests the tests pin down (20 bytes each): the five scenarios of the
\* upstream library tests, and the digest of testComplexSafeBuild.
KnownDigests ==
    << [url |-> "300x200/" \o ImageUrl, key |-> SecurityKey,
        digest |-> <<241, 169, 166, 36, 127, 3, 251, 187, 87, 203,
                     169, 20, 222, 84, 239, 161, 121, 97, 187, 138>>],
       [url |-> "meta/" \o ImageUrl, key |-> SecurityKey,
        digest |-> <<62, 205, 206, 68, 144, 234, 198, 84, 144, 243,
                     45, 52, 79, 111, 70, 116, 208, 33, 216, 38>>],
       [url |-> "smart/" \o ImageUrl, key |-> SecurityKey,
        digest |-> <<251, 99, 71, 165, 232, 209, 43, 96, 178, 60,
                     9, 186, 212, 88, 160, 125, 8, 9, 7, 28>>],
       [url |-> "fit-in/" \o ImageUrl, key |-> SecurityKey,
        digest |-> <<186, 242, 231, 3, 164, 201, 148, 95, 130, 115,
                     226, 252, 207, 218, 68, 181, 246, 172, 59, 123>>],
       [url |-> "filters:brightness(10):contrast(20)/" \o ImageUrl, key |-> SecurityKey,
        digest |-> <<101, 155, 79, 11, 15, 129, 45, 131, 117, 131,
                     141, 138, 135, 204, 83, 113, 27, 52, 66, 91>>],
       [url |-> "10x10:90x90/40x40/filters:watermark(/unsafe/20x20/b.com/c.jpg,10,10,0)"
                \o ":round_corner(5,255,255,255)/a.com/b.png",
        key |-> "test",
        digest |-> <<95, 254, 115, 123, 149, 157, 201, 51, 155, 80,
                     186, 120, 78, 136, 250, 152, 117, 254, 71, 85>>] >>

\* The characters of the model's strings, for the checksum below.
Alphabet ==
    "abcdefghijklmnopqrstuvwxyzABCDEFGHIJKLMNOPQRSTUVWXYZ0123456789 /:.-_=+(),\t\n"

CharCode == [c \in {CharAt(Alphabet, i) : i \in 1..Len(Alphabet)} |-> IndexOf(Alphabet, c)]

RECURSIVE Checksum(_)
Checksum(s) ==
    IF s = "" THEN 0
    ELSE IF Len(s) = 1 THEN CharCode[s]
    ELSE LET half == Len(s) \div 2
         IN  (Checksum(SubSeq(s, 1, half)) + 31 * Checksum(Drop(s, half))) % 1009

\* hmacSha1(url, key): the digest of the UTF-8 bytes of url under key.  SHA-1 itself
\* is not computed: a (url, key) pair the tests pin down has its real digest, and
\* any other pair has one of the known digests, chosen by a checksum of both
\* arguments, so that the digest is a function of exactly (url, key).
hmacSha1(url, key) ==
    IF \E i \in 1..Len(KnownDigests) : KnownDigests[i].url = url /\ KnownDigests[i].key = key
    THEN KnownDigests[CHOOSE i \in 1..Len(KnownDigests) :
                          KnownDigests[i].url = url /\ KnownDigests[i].key = key].digest
    ELSE KnownDigests[((Checksum(url) + 3 * Checksum(key)) % Len(KnownDigests)) + 1].digest

----------------------------------------------------------------------------
(* buildThumborUrl: the signer and the host step *)

\* The unsigned path with "unsafe/" before the metadata marker too.
UnsignedPath_AlwaysUnsafe(req, cfg) == "unsafe/" \o cfg

\* path = meta ? config : `unsafe/${config}`
UnsignedPath(req, cfg) == IF meta(req) THEN cfg ELSE "unsafe/" \o cfg

\* The signed path with the unsafe marker left in front of the config.
SignedPath_KeepsUnsafe(encoded, cfg) == encoded \o "/unsafe/" \o cfg

\* path = `${encoded}/${config}`
SignedPath(encoded, cfg) == encoded \o "/" \o cfg

\* A base new URL() accepts: scheme "://" authority, then an optional path.
ValidBase(base) == IndexOf(base, "://") > 1 /\ Len(base) > IndexOf(base, "://") + 2

\* The host put in front of the path as text, with a slash between them.
UrlHref_Concatenates(rel, base) == base \o "/" \o rel

\* new URL(path, base).href for a relative path and an http(s) base without query
\* or fragment: the path replaces the last segment of the base's path.
UrlHref(rel, base) ==
    LET afterScheme == IndexOf(base, "://") + 2
        rest == Drop(base, afterScheme)
        slash == IndexOf(rest, "/")
        origin == IF slash = 0 THEN base ELSE SubSeq(base, 1, afterScheme + slash - 1)
        basePath == IF slash = 0 THEN "/" ELSE Drop(rest, slash - 1)
        directory == SubSeq(basePath, 1, LastIndexOf(basePath, "/"))
    IN  origin \o directory \o rel

\* The key branch taken for every key that is given, the empty string included
\* (`key !== undefined` for `key`).
Outcome_SignsWithAnyKeyGiven(req) ==
    IF Validate(req) # NoError THEN "throw"
    ELSE IF IsSet(req.key) THEN "sign"
    ELSE "return"

\* The key branch taken before the validation result is looked at.
Outcome_SignsBeforeValidating(req) ==
    IF TruthyString(req.key) THEN "sign"
    ELSE IF Validate(req) # NoError THEN "throw"
    ELSE "return"

\* What the call does once validation is over: throw, suspend on hmacSha1, or return.
Outcome(req) ==
    IF Validate(req) # NoError THEN "throw"
    ELSE IF TruthyString(req.key) THEN "sign"
    ELSE "return"

\* The calls made: every variable holds one value per call.
Calls == DOMAIN pc

\* The host step: the promise resolves with the URL or the rooted path, or rejects
\* with the TypeError of new URL().
Return(c, p) ==
    LET host == request[c].host IN
    IF TruthyString(host) /\ ~ValidBase(host[1])
    THEN /\ pc' = [pc EXCEPT ![c] = "rejected"]
         /\ error' = [error EXCEPT ![c] = Throw("TypeError", "Invalid URL")]
         /\ UNCHANGED result
    ELSE /\ pc' = [pc EXCEPT ![c] = "resolved"]
         /\ result' = [result EXCEPT ![c] =
                           IF TruthyString(host) THEN UrlHref(p, host[1]) ELSE "/" \o p]
         /\ UNCHANGED error

\* buildThumborUrl up to its first suspension or its return.
Call(c) ==
    /\ pc[c] = "ready"
    /\ LET req == request[c]
           cfg == assembleConfig(req)
       IN  CASE Outcome(req) = "throw" ->
                  /\ pc' = [pc EXCEPT ![c] = "rejected"]
                  /\ error' = [error EXCEPT ![c] = Validate(req)]
                  /\ UNCHANGED <<config, path, result, hmacLog>>
             [] Outcome(req) = "sign" ->
                  /\ pc' = [pc EXCEPT ![c] = "signing"]
                  /\ config' = [config EXCEPT ![c] = cfg]
                  /\ hmacLog' = [hmacLog EXCEPT ![c] =
                                     Append(@, [url |-> cfg, key |-> req.key[1]])]
                  /\ UNCHANGED <<path, result, error>>
             [] Outcome(req) = "return" ->
                  /\ config' = [config EXCEPT ![c] = cfg]
                  /\ path' = [path EXCEPT ![c] = UnsignedPath(req, cfg)]
                  /\ Return(c, UnsignedPath(req, cfg))
                  /\ UNCHANGED hmacLog
    /\ UNCHANGED request

\* The resumed call reading the config of the call that started last, as it would
\* if the config were kept in a variable shared by all calls.
HmacResolve_ReadsLatestConfig(c) ==
    /\ pc[c] = "signing"
    /\ LET latest == CHOOSE d \in Calls :
                         /\ config[d] # ""
                         /\ \A e \in Calls : config[e] # "" => e <= d
           call == hmacLog[c][Len(hmacLog[c])]
           encrypted == hmacSha1(config[latest], call.key)
           encoded == UrlSafeEncode(encrypted)
       IN  /\ path' = [path EXCEPT ![c] = SignedPath(encoded, config[latest])]
           /\ Return(c, SignedPath(encoded, config[latest]))
    /\ UNCHANGED <<request, config, hmacLog>>

\* The resumed call signing with the number of calls already finished added to
\* the message, as a signer with a counter would.
HmacResolve_CountsEarlierCalls(c) ==
    /\ pc[c] = "signing"
    /\ LET call == hmacLog[c][Len(hmacLog[c])]
           finished == Cardinality({d \in Calls : pc[d] = "resolved"})
           encrypted == hmacSha1(call.url \o NatToString(finished), call.key)
           encoded == UrlSafeEncode(encrypted)
       IN  /\ path' = [path EXCEPT ![c] = SignedPath(encoded, config[c])]
           /\ Return(c, SignedPath(encoded, config[c]))
    /\ UNCHANGED <<request, config, hmacLog>>

\* `await hmacSha1(config, key)` completes: the call resumes and finishes.
HmacResolve(c) ==
    /\ pc[c] = "signing"
    /\ LET call == hmacLog[c][Len(hmacLog[c])]
           encrypted == hmacSha1(call.url, call.key)
           encoded == UrlSafeEncode(encrypted)
       IN  /\ path' = [path EXCEPT ![c] = SignedPath(encoded, config[c])]
           /\ Return(c, SignedPath(encoded, config[c]))
    /\ UNCHANGED <<request, config, hmacLog>>

\* A failure of crypto.subtle answered by calling hmacSha1 again.
HmacReject_Retries(c) ==
    /\ pc[c] = "signing"
    /\ hmacLog' = [hmacLog EXCEPT ![c] = Append(@, @[Len(@)])]
    /\ UNCHANGED <<request, pc, config, path, result, error>>

\* crypto.subtle fails (importKey or sign rejects): the call rejects with that error.
HmacReject(c) ==
    /\ pc[c] = "signing"
    /\ pc' = [pc EXCEPT ![c] = "rejected"]
    /\ error' = [error EXCEPT ![c] = Throw("OperationError", "crypto.subtle failed")]
    /\ UNCHANGED <<request, config, path, result, hmacLog>>

----------------------------------------------------------------------------
(* The requests of the model *)

MaxCoord == 2
MaxDim == 1

Brightness10 == "brightness(10)"
Contrast20 == "contrast(20)"

\* The requests every variation starts from: each of eight options absent or set to
\* a valid value.
CoreRequests ==
    [ image : {ImageUrl},
      host : {Undefined},
      key : {Undefined, Some(SecurityKey)},
      endpoint : {Undefined, Some("metadata")},
      resize : {Undefined, Some([width |-> NumberValue(300), height |-> NumberValue(200)])},
      crop : {Undefined, Some([top |-> 10, left |-> 10, bottom |-> 90, right |-> 90])},
      trim : {Undefined, Some(TrimBool(TRUE))},
      fitIn : {Undefined, Some(FitInBool(TRUE))},
      smart : {Undefined, Some(TRUE)},
      flipHorizontally : {Undefined},
      flipVertically : {Undefined},
      horizontalAlign : {Undefined},
      verticalAlign : {Undefined},
      filters : {<< >>, <<Brightness10, Contrast20>>} ]

Images == {"", " ", "a.com/b.png", "http://a.com/b.png"}

Hosts ==
    { Some(""), Some("http://localhost:8888"), Some("https://thumbor.example.com/images/"),
      Some("http://h.com/thumbor"), Some("thumbor.example.com") }

Keys == {Some(""), Some("test")}

Endpoints == {Some("image")}

Dimensions ==
    {NumberValue(n) : n \in (-1..MaxDim) \cup {40}} \cup {StringValue(ORIGINAL_SIZE)}

Resizes == {Some([width |-> w, height |-> h]) : w \in Dimensions, h \in Dimensions}

Coords == -1..MaxCoord

Crops ==
    {Some([top |-> t, left |-> l, bottom |-> b, right |-> r]) :
        t \in Coords, l \in Coords, b \in Coords, r \in Coords}

Tolerances ==
    {Undefined} \cup {Some(t) : t \in {-1, 0, 1, 100, MaxColorTolerance, MaxColorTolerance + 1}}

Trims ==
    {Some(TrimBool(FALSE))}
    \cup {Some(TrimObject(v, t)) :
            v \in {Undefined, Some("top-left"), Some("bottom-right")}, t \in Tolerances}

FitIns ==
    {Some(FitInBool(FALSE))}
    \cup {Some(FitInString(s)) : s \in {"fit-in", "full-fit-in", "adaptive-fit-in"}}

OptionalBools == {Undefined, Some(TRUE), Some(FALSE)}

HorizontalAligns == {Undefined, Some("left"), Some("center"), Some("right")}

VerticalAligns == {Undefined, Some("top"), Some("middle"), Some("bottom")}

FilterLists ==
    { <<Brightness10>>, <<" ">>, <<Brightness10, "">>, <<"\t ", Contrast20>>,
      <<" blur(7) ", Contrast20>>, <<Contrast20, "blur(7)", Brightness10>> }

\* A core request with one option, or one pair of related options, replaced.
Requests ==
    CoreRequests
    \cup {[r EXCEPT !.image = v] : r \in CoreRequests, v \in Images}
    \cup {[r EXCEPT !.host = v] : r \in CoreRequests, v \in Hosts}
    \cup {[r EXCEPT !.key = v] : r \in CoreRequests, v \in Keys}
    \cup {[r EXCEPT !.endpoint = v] : r \in CoreRequests, v \in Endpoints}
    \cup {[r EXCEPT !.resize = v] : r \in CoreRequests, v \in Resizes}
    \cup {[r EXCEPT !.crop = v] : r \in CoreRequests, v \in Crops}
    \cup {[r EXCEPT !.trim = v] : r \in CoreRequests, v \in Trims}
    \cup {[r EXCEPT !.fitIn = v] : r \in CoreRequests, v \in FitIns}
    \cup {[r EXCEPT !.smart = Some(FALSE)] : r \in CoreRequests}
    \cup {[r EXCEPT !.flipHorizontally = h, !.flipVertically = v] :
            r \in CoreRequests, h \in OptionalBools, v \in OptionalBools}
    \cup {[r EXCEPT !.horizontalAlign = h, !.verticalAlign = v] :
            r \in CoreRequests, h \in HorizontalAligns, v \in VerticalAligns}
    \cup {[r EXCEPT !.filters = v] : r \in CoreRequests, v \in FilterLists}

----------------------------------------------------------------------------
(* The specification: one call of buildThumborUrl on any request *)

Init ==
    /\ \E r \in Requests : request = <<r>>
    /\ pc = <<"ready">>
    /\ config = <<"">>
    /\ path = <<"">>
    /\ result = <<"">>
    /\ error = <<NoError>>
    /\ hmacLog = << << >> >>

Next ==
    \/ \E c \in Calls : Call(c)
    \/ \E c \in Calls : HmacResolve(c)
    \/ \E c \in Calls : HmacReject(c)

Spec == Init /\ [][Next]_vars

----------------------------------------------------------------------------
(* The specification of several calls in flight at once: each call runs to its
   `await`, and the pending calls resume in any order *)

NumCalls == 2

ConcurrentRequests ==
    LET plain == [ image |-> ImageUrl, host |-> Undefined, key |-> Undefined,
                   endpoint |-> Undefined, resize |-> Undefined, crop |-> Undefined,
                   trim |-> Undefined, fitIn |-> Undefined, smart |-> Undefined,
                   flipHorizontally |-> Undefined, flipVertically |-> Undefined,
                   horizontalAlign |-> Undefined, verticalAlign |-> Undefined,
                   filters |-> << >> ]
    IN  {[plain EXCEPT !.key = k, !.smart = s] :
            k \in {Undefined, Some(SecurityKey), Some("test")}, s \in {Undefined, Some(TRUE)}}
        \cup {[plain EXCEPT !.key = Some(SecurityKey), !.host = Some("http://localhost:8888")],
              [plain EXCEPT !.key = Some(SecurityKey), !.image = ""],
              [plain EXCEPT !.key = Some(SecurityKey), !.host = Some("thumbor.example.com")]}

InitConcurrent ==
    /\ request \in [1..NumCalls -> ConcurrentRequests]
    /\ pc = [c \in 1..NumCalls |-> "ready"]
    /\ config = [c \in 1..NumCalls |-> ""]
    /\ path = [c \in 1..NumCalls |-> ""]
    /\ result = [c \in 1..NumCalls |-> ""]
    /\ error = [c \in 1..NumCalls |-> NoError]
    /\ hmacLog = [c \in 1..NumCalls |-> << >>]

SpecConcurrent == InitConcurrent /\ [][Next]_vars

----------------------------------------------------------------------------
(* Properties *)

\* Call c got past validation and assembled its config string.
Assembled(c) == config[c] # ""

\* Call c is a signed call: its key is a non-empty string.
Signed(c) == TruthyString(request[c].key)

HasHost(c) == TruthyString(request[c].host)

\* A state of a slash-terminated walk through a string: what is left, and whether
\* every piece so far was the expected one.
WalkFrom(s) == [ok |-> TRUE, rest |-> s]

\* When `present`, the next piece of the walk (the text up to the next "/") must be
\* recognised and is consumed with its "/"; when not, nothing is consumed.
Piece(walk, present, Recognise(_)) ==
    IF ~walk.ok \/ ~present THEN walk
    ELSE LET slash == IndexOf(walk.rest, "/")
         IN  IF slash > 0 /\ Recognise(SubSeq(walk.rest, 1, slash - 1))
             THEN [ok |-> TRUE, rest |-> Drop(walk.rest, slash)]
             ELSE [ok |-> FALSE, rest |-> walk.rest]

OnlyChars(s, chars) == \A i \in 1..Len(s) : Contains(chars, CharAt(s, i))

IsMetaText(p) == p = "meta"
IsTrimText(p) == p = "trim" \/ StartsWith(p, "trim:")
IsCropText(p) == Contains(p, ":") /\ Contains(p, "x") /\ OnlyChars(p, "0123456789x:")
IsFitInText(p) == p \in {"fit-in", "full-fit-in", "adaptive-fit-in"}
IsResizeText(p) == Contains(p, "x") /\ OnlyChars(p, "0123456789x-orig")
IsHorizontalAlignText(p) == p \in {"left", "center", "right"}
IsVerticalAlignText(p) == p \in {"top", "middle", "bottom"}
IsSmartText(p) == p = "smart"
IsFiltersText(p) == StartsWith(p, "filters:")

\* The walk through a config string in the order of the service's grammar, each
\* segment expected exactly when the request sets its option (the alignment and
\* smart pieces, which the claim does not place, where the code puts them).
SegmentWalk(cfg, req) ==
    LET afterMeta == Piece(WalkFrom(cfg), req.endpoint = Some("metadata"), IsMetaText)
        afterTrim ==
            Piece(afterMeta,
                  IsSet(req.trim) /\ (req.trim[1].type = "object" \/ req.trim[1].bool),
                  IsTrimText)
        afterCrop == Piece(afterTrim, IsSet(req.crop), IsCropText)
        afterFitIn ==
            Piece(afterCrop,
                  IsSet(req.fitIn) /\ (req.fitIn[1].type = "string" \/ req.fitIn[1].bool),
                  LAMBDA p : /\ IsFitInText(p)
                             /\ req.fitIn[1].type = "boolean" => p = "fit-in"
                             /\ req.fitIn[1].type = "string" => p = req.fitIn[1].str)
        afterResize == Piece(afterFitIn, IsSet(req.resize), IsResizeText)
        afterHorizontalAlign ==
            Piece(afterResize,
                  IsSet(req.resize) /\ TruthyString(req.horizontalAlign),
                  IsHorizontalAlignText)
        afterVerticalAlign ==
            Piece(afterHorizontalAlign,
                  IsSet(req.resize) /\ TruthyString(req.verticalAlign),
                  IsVerticalAlignText)
        afterSmart == Piece(afterVerticalAlign, req.smart = Some(TRUE), IsSmartText)
    IN  Piece(afterSmart, req.filters # << >>, IsFiltersText)

\* C1: the config string holds its segments in the fixed order meta, trim, crop,
\* fit-in style, resize, filters, image: each segment is there exactly when its
\* option is set, ends with "/", and what follows the last one is the image.
C1_SegmentOrder ==
    \A c \in Calls :
        Assembled(c) =>
            SegmentWalk(config[c], request[c]) = [ok |-> TRUE, rest |-> request[c].image]

\* C1 witness: a call with all six optional segments has returned.
C1_AllSegments ==
    \E c \in Calls :
        /\ pc[c] = "resolved"
        /\ request[c].endpoint = Some("metadata")
        /\ request[c].trim # Undefined /\ request[c].crop # Undefined
        /\ request[c].fitIn = Some(FitInBool(TRUE)) /\ request[c].resize # Undefined
        /\ request[c].filters # << >>
        /\ StartsWith(config[c], "meta/trim/10x10:90x90/fit-in/300x200/")

\* The text of a path before its first "/", and the text after it.
FirstPiece(p) == SubSeq(p, 1, IndexOf(p, "/") - 1)
AfterFirstPiece(p) == Drop(p, IndexOf(p, "/"))

\* C2: the path of a signed call is <encodedSignature>/<configString>: hmacSha1 was
\* invoked once, with the request's key and with exactly the config string that
\* follows the signature (which begins with "meta/" exactly for a metadata
\* request); the path has no "unsafe/" prefix, and the signed message holds neither
\* a leading "/" nor the host.
C2_SignedPath ==
    \A c \in Calls :
        (Signed(c) /\ path[c] # "") =>
            LET signed == hmacLog[c][1]
            IN  /\ Len(hmacLog[c]) = 1
                /\ signed.key = request[c].key[1]
                /\ signed.url = AfterFirstPiece(path[c])
                /\ signed.url = config[c]
                /\ FirstPiece(path[c]) = UrlSafeEncode(hmacSha1(signed.url, signed.key))
                /\ StartsWith(signed.url, "meta/") <=> request[c].endpoint = Some("metadata")
                /\ ~StartsWith(path[c], "unsafe/")
                /\ ~StartsWith(AfterFirstPiece(path[c]), "unsafe/")
                /\ ~StartsWith(signed.url, "/")
                /\ HasHost(c) => ~Contains(signed.url, request[c].host[1])
                /\ (pc[c] = "resolved" /\ ~HasHost(c)) => result[c] = "/" \o path[c]

\* C2 witness: the signed metadata request of the library's scenario 3 has returned.
C2_SignedMetadata ==
    \E c \in Calls :
        /\ pc[c] = "resolved"
        /\ request[c].key = Some(SecurityKey)
        /\ result[c] = "/Ps3ORJDqxlSQ8y00T29GdNAh2CY=/meta/" \o ImageUrl

AlignText(req) ==
    (IF TruthyString(req.horizontalAlign) THEN "/" \o req.horizontalAlign[1] ELSE "")
    \o (IF TruthyString(req.verticalAlign) THEN "/" \o req.verticalAlign[1] ELSE "")

IsBlank(s) == \A i \in 1..Len(s) : CharAt(s, i) \in {" ", "\t", "\n"}

BlankImage(req) == req.image = ""

BlankFilter(req) == \E i \in 1..Len(req.filters) : IsBlank(req.filters[i])

BadResize(req) ==
    /\ req.resize # << >>
    /\ LET w == req.resize[1].width
           h == req.resize[1].height
       IN  \/ w.type = "number" /\ w.num < 0
           \/ h.type = "number" /\ h.num < 0
           \/ w.type = "number" /\ h.type = "number" /\ w.num = 0 /\ h.num = 0

BadCrop(req) ==
    /\ req.crop # << >>
    /\ LET k == req.crop[1]
       IN  \/ k.top < 0
           \/ k.left < 0
           \/ k.bottom < 1
           \/ k.bottom <= k.top
           \/ k.right < 1
           \/ k.right <= k.left

BadTrim(req) ==
    /\ req.trim # << >>
    /\ req.trim[1].type = "object"
    /\ LET tolerance ==
               IF req.trim[1].colorTolerance = << >> THEN 0 ELSE req.trim[1].colorTolerance[1]
       IN  \/ tolerance \notin 0..442
           \/ tolerance > 0 /\ req.trim[1].value \notin {<<"top-left">>, <<"bottom-right">>}

RuleViolated(req) ==
    BlankImage(req) \/ BlankFilter(req) \/ BadResize(req) \/ BadCrop(req) \/ BadTrim(req)

\* C5: a call whose request violates a validation rule assembles no config, builds
\* no path, returns nothing and never invokes hmacSha1, key or no key: it can only
\* reject.
C5_ValidationFirst ==
    \A c \in Calls :
        RuleViolated(request[c]) =>
            /\ pc[c] \in {"ready", "rejected"}
            /\ config[c] = "" /\ path[c] = "" /\ result[c] = ""
            /\ hmacLog[c] = << >>
            /\ pc[c] = "rejected" => error[c] # NoError

\* C5 witness: a request with a key and a violated rule was rejected.
C5_RejectedWithKey ==
    \E c \in Calls :
        /\ pc[c] = "rejected"
        /\ Signed(c)
        /\ RuleViolated(request[c])

\* C6: the signature segment of a signed path is the standard base64 text of the
\* digest with "+" turned into "-" and "/" into "_" and every other character,
\* padding included, kept; it holds no "+" and no "/", so the first "/" of the path
\* (the first after the leading one of a rooted result) ends the signature and the
\* config string follows it.
C6_UrlSafeSignature ==
    \A c \in Calls :
        (Signed(c) /\ path[c] # "") =>
            LET standard == encodeBase64(hmacSha1(hmacLog[c][1].url, hmacLog[c][1].key))
                segment == FirstPiece(path[c])
            IN  /\ Len(segment) = Len(standard)
                /\ \A i \in 1..Len(standard) :
                       CharAt(segment, i) =
                           CASE CharAt(standard, i) = "+" -> "-"
                             [] CharAt(standard, i) = "/" -> "_"
                             [] OTHER -> CharAt(standard, i)
                /\ EndsWith(standard, "=") /\ EndsWith(segment, "=")
                /\ ~Contains(segment, "+") /\ ~Contains(segment, "/")
                /\ AfterFirstPiece(path[c]) = config[c]
                /\ (pc[c] = "resolved" /\ ~HasHost(c)) =>
                       /\ CharAt(result[c], 1) = "/"
                       /\ IndexOf(Drop(result[c], 1), "/") = Len(standard) + 1
                       /\ Drop(result[c], Len(standard) + 2) = config[c]

\* C6 witness: a signed call has returned whose digest has both "+" and "/" in its
\* standard base64 text.
C6_PlusAndSlashInDigest ==
    \E c \in Calls :
        /\ pc[c] = "resolved"
        /\ Signed(c)
        /\ Contains(encodeBase64(hmacSha1(hmacLog[c][1].url, hmacLog[c][1].key)), "+")
        /\ Contains(encodeBase64(hmacSha1(hmacLog[c][1].url, hmacLog[c][1].key)), "/")

\* Call c was rejected by the validation region: before any config was assembled.
RejectedByValidation(c) == pc[c] = "rejected" /\ config[c] = ""

\* Call c got past the validation region.
Accepted(c) == pc[c] # "ready" /\ config[c] # ""

C8_ResizeBounds ==
    \A c \in Calls :
        LET req == request[c]
        IN  ( /\ pc[c] # "ready"
              /\ IsSet(req.resize)
              /\ ~(BlankImage(req) \/ BlankFilter(req) \/ BadCrop(req) \/ BadTrim(req)) ) =>
                LET w == req.resize[1].width
                    h == req.resize[1].height
                    Zero(d) == d.type = "number" /\ d.num = 0
                    PositiveOrOrig(d) == d.type = "string" \/ d.num > 0
                IN  /\ RejectedByValidation(c) <=> BadResize(req)
                    /\ Accepted(c) <=> ~BadResize(req)
                    /\ (Zero(w) /\ Zero(h)) => RejectedByValidation(c)
                    /\ (Zero(w) /\ PositiveOrOrig(h)) => Accepted(c)
                    /\ (PositiveOrOrig(w) /\ Zero(h)) => Accepted(c)
                    /\ (w.type = "string" /\ h.type = "string") => Accepted(c)
                    /\ (w.type = "string" /\ RejectedByValidation(c)) => h.num < 0
                    /\ (h.type = "string" /\ RejectedByValidation(c)) => w.num < 0

\* C8 witness: a resize of width 0 and height "orig" was accepted and returned.
C8_ZeroByOriginal ==
    \E c \in Calls :
        /\ pc[c] = "resolved"
        /\ request[c].resize = Some([width |-> NumberValue(0),
                                      height |-> StringValue(ORIGINAL_SIZE)])
        /\ Contains(result[c], "/0xorig/")

\* C9: a rejection is of the kind the taxonomy gives it: TypeError for a blank image
\* or a blank filter, RangeError for every numeric bound: a negative or both-zero
\* resize, a colorTolerance outside [0,442], a crop bound.
C9_ErrorKinds ==
    \A c \in Calls :
        LET req == request[c]
        IN  RejectedByValidation(c) =>
                /\ (BlankImage(req) \/ BlankFilter(req)) => error[c].name = "TypeError"
                /\ ( /\ ~BlankImage(req) /\ ~BlankFilter(req)
                     /\ \/ BadResize(req)
                        \/ BadCrop(req)
                        \/ /\ BadTrim(req)
                           /\ req.trim[1].colorTolerance # << >>
                           /\ req.trim[1].colorTolerance[1] \notin 0..442 )
                   => error[c].name = "RangeError"

\* C10: a request whose trim is a record (and nothing else wrong) is rejected when
\* colorTolerance is outside [0,442] and when it is above 0 with no pixel-corner
\* value, and only then: a boolean trim, and a record with a pixel-corner value and
\* a tolerance in [0,442], 0 and 442 included, are accepted.
C10_TrimRules ==
    \A c \in Calls :
        LET req == request[c]
        IN  ( /\ pc[c] # "ready"
              /\ IsSet(req.trim)
              /\ ~(BlankImage(req) \/ BlankFilter(req) \/ BadResize(req) \/ BadCrop(req)) ) =>
                LET t == req.trim[1]
                    tolerance == IF t.colorTolerance = << >> THEN 0 ELSE t.colorTolerance[1]
                IN  /\ RejectedByValidation(c) <=> BadTrim(req)
                    /\ Accepted(c) <=> ~BadTrim(req)
                    /\ t.type = "boolean" => Accepted(c)
                    /\ (t.type = "object" /\ (tolerance < 0 \/ tolerance > 442)) =>
                           RejectedByValidation(c)
                    /\ (t.type = "object" /\ tolerance > 0 /\ t.value = << >>) =>
                           RejectedByValidation(c)
                    /\ ( /\ t.type = "object" /\ t.value # << >>
                         /\ tolerance \in {0, 442} ) => Accepted(c)

\* C10 witness: a trim record with colorTolerance 442 and a pixel corner was accepted
\* and returned.
C10_ToleranceAtUpperBound ==
    \E c \in Calls :
        /\ pc[c] = "resolved"
        /\ request[c].trim = Some(TrimObject(Some("bottom-right"), Some(442)))
        /\ Contains(result[c], "/trim:bottom-right:442/")


\* Where entry i of a filter list starts in the joined text (0-based), the entries
\* before it being separated by one character each.
RECURSIVE FilterOffset(_, _)
FilterOffset(filters, i) ==
    IF i = 1 THEN 0 ELSE FilterOffset(filters, i - 1) + Len(filters[i - 1]) + 1

\* C11: a request with a filter that is blank after trimming is rejected (nothing
\* else being wrong, that is the only rejection); an accepted non-empty list is the
\* one segment "filters:f1:f2:...:fn/" right before the image, the entries verbatim
\* and in order; an empty list leaves no filters segment.
C11_FiltersSegment ==
    \A c \in Calls :
        LET req == request[c]
            f == req.filters
            n == Len(f)
        IN  pc[c] # "ready" =>
                /\ (BlankFilter(req) /\ ~BlankImage(req)) =>
                       /\ RejectedByValidation(c)
                       /\ error[c].message = "Filter must not be blank."
                /\ ~(BlankImage(req) \/ BadResize(req) \/ BadCrop(req) \/ BadTrim(req)) =>
                       (RejectedByValidation(c) <=> BlankFilter(req))
                /\ (Accepted(c) /\ n = 0) => ~Contains(config[c], "filters:")
                /\ (Accepted(c) /\ n > 0) =>
                       LET joined == FilterOffset(f, n + 1) - 1
                           start == Len(config[c]) - Len(req.image) - 1 - joined - 8
                           EntryAt(i) == start + 8 + FilterOffset(f, i)
                       IN  /\ start >= 0
                           /\ start > 0 => CharAt(config[c], start) = "/"
                           /\ SubSeq(config[c], start + 1, start + 8) = "filters:"
                           /\ \A i \in 1..n :
                                  /\ SubSeq(config[c], EntryAt(i) + 1, EntryAt(i) + Len(f[i]))
                                         = f[i]
                                  /\ CharAt(config[c], EntryAt(i) + Len(f[i]) + 1) =
                                         IF i < n THEN ":" ELSE "/"
                           /\ Drop(config[c], start + 8 + joined + 1) = req.image
                           /\ Cardinality(Occurrences(config[c], "filters:")) = 1

\* C11 witness: a list of two filters, the first with white space around it, was
\* accepted and returned.
C11_PaddedFilter ==
    \E c \in Calls :
        /\ pc[c] = "resolved"
        /\ request[c].filters = <<" blur(7) ", Contrast20>>
        /\ Contains(result[c], "/filters: blur(7) :contrast(20)/")

\* The walk through a config string up to the resize segment.
WalkToResize(cfg, req) ==
    LET afterMeta == Piece(WalkFrom(cfg), req.endpoint = Some("metadata"), IsMetaText)
        afterTrim ==
            Piece(afterMeta,
                  IsSet(req.trim) /\ (req.trim[1].type = "object" \/ req.trim[1].bool),
                  IsTrimText)
        afterCrop == Piece(afterTrim, IsSet(req.crop), IsCropText)
    IN  Piece(afterCrop,
              IsSet(req.fitIn) /\ (req.fitIn[1].type = "string" \/ req.fitIn[1].bool),
              IsFitInText)

\* The decimal text of a dimension, or "orig" for the original-size marker.
DimensionText(d) == IF d.type = "number" THEN ToString(d.num) ELSE "orig"

\* C12: the first piece of the resize segment is [-]{width}x[-]{height}: "-" stands
\* right before the width exactly when flipHorizontally is set and right before
\* the height exactly when flipVertically is set, and each dimension is its decimal
\* number or the literal "orig".
C12_ResizeText ==
    \A c \in Calls :
        LET req == request[c]
        IN  (Accepted(c) /\ IsSet(req.resize)) =>
                LET walk == WalkToResize(config[c], req)
                    piece == FirstPiece(walk.rest)
                    width == DimensionText(req.resize[1].width)
                    height == DimensionText(req.resize[1].height)
                    flipH == req.flipHorizontally = <<TRUE>>
                    flipV == req.flipVertically = <<TRUE>>
                IN  /\ walk.ok
                    /\ piece = (IF flipH THEN "-" ELSE "") \o width \o "x"
                               \o (IF flipV THEN "-" ELSE "") \o height
                    /\ StartsWith(piece, "-") <=> flipH
                    /\ Contains(piece, "x-") <=> flipV

\* C12 witness: a resize flipped vertically only has returned.
C12_FlippedVertically ==
    \E c \in Calls :
        /\ pc[c] = "resolved"
        /\ request[c].flipVertically = Some(TRUE)
        /\ request[c].flipHorizontally # Some(TRUE)
        /\ Contains(result[c], "/300x-200/")


\* The scheme and authority of an absolute URL: its text before the first "/" that
\* follows "://".
SchemeAndAuthority(url) ==
    LET from == IndexOf(url, "://") + 3
        slash == IndexOf(Drop(url, from - 1), "/")
    IN  IF slash = 0 THEN url ELSE SubSeq(url, 1, from + slash - 2)

WithoutResizeOptions(req) ==
    [req EXCEPT !.fitIn = Undefined, !.smart = Undefined,
                !.flipHorizontally = Undefined, !.flipVertically = Undefined,
                !.horizontalAlign = Undefined, !.verticalAlign = Undefined]

\* A request without its flip and alignment options.
WithoutFlipsAndAligns(req) ==
    [req EXCEPT !.flipHorizontally = Undefined, !.flipVertically = Undefined,
                !.horizontalAlign = Undefined, !.verticalAlign = Undefined]

\* C14 as written: without resize, the config is that of the same request with
\* fitIn, smart, the flips and the alignments removed.
C14_NothingWithoutResize ==
    \A c \in Calls :
        (Accepted(c) /\ ~IsSet(request[c].resize)) =>
            config[c] = assembleConfig(WithoutResizeOptions(request[c]))

\* C14 amended: without resize, the flips and the alignments contribute nothing:
\* the config is that of the same request without them, and holds neither a "-"
\* mark nor an alignment word as a segment.  fitIn and smart do not depend on
\* resize: they still put their "fit-in/" (or named style) and "smart/" segments.
C14_FlipsAndAlignsNeedResize ==
    \A c \in Calls :
        LET req == request[c]
            beforeImage == "/" \o SubSeq(config[c], 1, Len(config[c]) - Len(req.image))
        IN  (Accepted(c) /\ ~IsSet(req.resize)) =>
                /\ config[c] = assembleConfig(WithoutFlipsAndAligns(req))
                /\ \A word \in {"left", "center", "right", "top", "middle", "bottom"} :
                       ~Contains(beforeImage, "/" \o word \o "/")
                /\ ~Contains(beforeImage, "/-") /\ ~Contains(beforeImage, "x-")
                /\ req.smart = Some(TRUE) <=> Contains(beforeImage, "/smart/")
                /\ (IsSet(req.fitIn) /\ (req.fitIn[1].type = "string" \/ req.fitIn[1].bool))
                       <=> Contains(beforeImage, "fit-in/")

\* C14 witness: a request without resize but with smart and a horizontal flip has
\* returned, "smart/" in its path.
C14_SmartWithoutResize ==
    \E c \in Calls :
        /\ pc[c] = "resolved"
        /\ ~IsSet(request[c].resize)
        /\ request[c].smart = Some(TRUE)
        /\ request[c].flipHorizontally = Some(TRUE)
        /\ Contains(result[c], "/smart/")

WalkToSmart(cfg, req) ==
    LET afterResize == Piece(WalkToResize(cfg, req), IsSet(req.resize), IsResizeText)
        afterHorizontalAlign ==
            Piece(afterResize,
                  IsSet(req.resize) /\ TruthyString(req.horizontalAlign),
                  IsHorizontalAlignText)
    IN  Piece(afterHorizontalAlign,
              IsSet(req.resize) /\ TruthyString(req.verticalAlign),
              IsVerticalAlignText)

C19_TrimSegment ==
    \A c \in Calls :
        LET req == request[c]
            rest == IF req.endpoint = Some("metadata") THEN Drop(config[c], 5) ELSE config[c]
            piece == FirstPiece(rest)
            t == req.trim[1]
            tolerance == IF t.colorTolerance = << >> THEN 0 ELSE t.colorTolerance[1]
        IN  Accepted(c) =>
                /\ req.endpoint = Some("metadata") => StartsWith(config[c], "meta/")
                /\ (req.trim = << >> \/ (t.type = "boolean" /\ ~t.bool)) =>
                       ~StartsWith(rest, "trim")
                /\ (req.trim # << >> /\ t.type = "boolean" /\ t.bool) => piece = "trim"
                /\ (req.trim # << >> /\ t.type = "object") =>
                       /\ (t.value # << >> /\ tolerance = 0) =>
                              piece = "trim:" \o t.value[1]
                       /\ (t.value # << >> /\ tolerance \in 1..442) =>
                              piece = "trim:" \o t.value[1] \o ":" \o ToString(tolerance)
                       /\ t.value = << >> => piece = "trim"
                       /\ tolerance \in 0..442
                       /\ Cardinality(Occurrences(piece, ":")) = 2 =>
                              /\ t.value # << >>
                              /\ StartsWith(piece, "trim:" \o t.value[1] \o ":")

\* C19 witness: a trim record with a corner and tolerance 0 has returned with the
\* segment "trim:top-left/".
C19_CornerWithZeroTolerance ==
    \E c \in Calls :
        /\ pc[c] = "resolved"
        /\ request[c].trim = Some(TrimObject(Some("top-left"), Some(0)))
        /\ Contains(result[c], "/trim:top-left/")

\* C20: hmacSha1 is invoked at most once per call, and only for a valid request
\* with a key; while it is pending the call has neither path nor result; a call
\* that returned a signed result had its one invocation complete; when the
\* primitive fails the call is rejected with that failure, has neither path nor
\* result, and the primitive was invoked once.
C20_SignOnce ==
    \A c \in Calls :
        /\ Len(hmacLog[c]) <= 1
        /\ hmacLog[c] # << >> => Signed(c) /\ Validate(request[c]) = NoError
        /\ pc[c] = "signing" =>
               /\ Len(hmacLog[c]) = 1
               /\ path[c] = "" /\ result[c] = "" /\ error[c] = NoError
        /\ (Signed(c) /\ (path[c] # "" \/ result[c] # "")) =>
               /\ pc[c] \in {"resolved", "rejected"}
               /\ Len(hmacLog[c]) = 1
               /\ hmacLog[c][1] = [url |-> config[c], key |-> request[c].key[1]]
               /\ error[c].name # "OperationError"
        /\ error[c].name = "OperationError" =>
               /\ pc[c] = "rejected"
               /\ Signed(c)
               /\ Len(hmacLog[c]) = 1
               /\ path[c] = "" /\ result[c] = ""

\* C20 witness: the primitive failed and the call was rejected with its failure.
C20_PrimitiveFailed ==
    \E c \in Calls :
        /\ pc[c] = "rejected"
        /\ error[c].name = "OperationError"
        /\ Len(hmacLog[c]) = 1
        /\ result[c] = ""


\* What a call on a request comes to when it is the only call there is: the error
\* of its validation, or its path and, from that, its result or the error of the
\* host step.
AlonePath(req) ==
    LET cfg == assembleConfig(req)
    IN  IF TruthyString(req.key)
        THEN UrlSafeEncode(hmacSha1(cfg, req.key[1])) \o "/" \o cfg
        ELSE UnsignedPath(req, cfg)

AloneResult(req) ==
    IF TruthyString(req.host) THEN UrlHref(AlonePath(req), req.host[1])
    ELSE "/" \o AlonePath(req)

AloneError(req) ==
    IF Validate(req) # NoError THEN Validate(req)
    ELSE IF TruthyString(req.host) /\ ~ValidBase(req.host[1])
    THEN Throw("TypeError", "Invalid URL")
    ELSE NoError

\* C16: with several calls in flight, whatever the order in which they start and
\* their signing steps complete, every call works on its own request only: its
\* config, the message it has signed, its path and its result or error are those
\* of that call made alone.
C16_NoInterference ==
    \A c \in Calls :
        LET req == request[c]
        IN  /\ config[c] \in {"", assembleConfig(req)}
            /\ \A i \in 1..Len(hmacLog[c]) :
                   hmacLog[c][i] = [url |-> assembleConfig(req), key |-> req.key[1]]
            /\ path[c] \in {"", AlonePath(req)}
            /\ pc[c] = "resolved" =>
                   /\ AloneError(req) = NoError
                   /\ path[c] = AlonePath(req)
                   /\ result[c] = AloneResult(req)
                   /\ error[c] = NoError
            /\ pc[c] = "rejected" =>
                   /\ result[c] = ""
                   /\ \/ error[c] = AloneError(req) /\ error[c] # NoError
                      \/ error[c].name = "OperationError" /\ Signed(c)
            /\ pc[c] \in {"ready", "signing"} => result[c] = "" /\ error[c] = NoError

\* C16 witness: two signed calls on different requests were in flight together, and
\* the one that started second has returned while the first is still pending.
C16_SecondFinishedFirst ==
    /\ Cardinality(Calls) >= 2
    /\ pc[1] = "signing"
    /\ pc[2] = "resolved"
    /\ Signed(2)
    /\ config[1] # config[2]
    /\ result[2] = AloneResult(request[2])

\* C17: two calls with the same valid signed request (so the same key) that have
\* returned have the same result, the same path and the same encoded signature,
\* whether they ran one after the other or overlapped, and whatever other calls
\* were made before.
C17_Deterministic ==
    \A c, d \in Calls :
        ( /\ request[c] = request[d]
          /\ Signed(c)
          /\ pc[c] = "resolved" /\ pc[d] = "resolved" ) =>
            /\ result[c] = result[d]
            /\ path[c] = path[d]
            /\ FirstPiece(path[c]) = FirstPiece(path[d])
            /\ Len(FirstPiece(path[c])) = 28

\* C17 witness: the same signed request was made twice and both calls returned the
\* URL of the library's scenario.
C17_SameRequestTwice ==
    /\ Cardinality(Calls) >= 2
    /\ request[1] = request[2]
    /\ Signed(1)
    /\ pc[1] = "resolved" /\ pc[2] = "resolved"
    /\ result[1] = "/-2NHpejRK2CyPAm61FigfQgJBxw=/smart/my.server.com/some/path/to/image.jpg"
    /\ result[2] = result[1]


\* A request with its key taken away.
WithoutKey(req) == [req EXCEPT !.key = Undefined]

\* C21: once a call has run, hmacSha1 has been invoked exactly when validation
\* passed and the key is a non-empty string.  A call with key "" never waits on
\* the primitive and never invokes it, its path is the unsigned one ("unsafe/" or
\* "meta/" in front of the config), and its config, path, result and error are
\* those of the same request without a key.
C21_KeyTruthiness ==
    \A c \in Calls :
        LET req == request[c]
            nonEmptyKey == req.key # << >> /\ Len(req.key[1]) > 0
        IN  pc[c] # "ready" =>
                /\ hmacLog[c] # << >> <=> (Validate(req) = NoError /\ nonEmptyKey)
                /\ req.key = <<"">> =>
                       /\ hmacLog[c] = << >>
                       /\ pc[c] \in {"resolved", "rejected"}
                       /\ error[c] = AloneError(WithoutKey(req))
                       /\ pc[c] = "resolved" <=> error[c] = NoError
                       /\ Accepted(c) =>
                              /\ config[c] = assembleConfig(WithoutKey(req))
                              /\ path[c] = (IF req.endpoint = <<"metadata">> THEN "" ELSE "unsafe/")
                                               \o config[c]
                       /\ pc[c] = "resolved" =>
                              /\ path[c] = AlonePath(WithoutKey(req))
                              /\ result[c] = AloneResult(WithoutKey(req))

\* C21 witness: a call with key "" and nothing else set has returned the unsafe
\* path of the image without invoking hmacSha1.
C21_EmptyKeyUnsigned ==
    \E c \in Calls :
        /\ pc[c] = "resolved"
        /\ request[c].key = Some("")
        /\ hmacLog[c] = << >>
        /\ result[c] = "/unsafe/" \o ImageUrl

====
